---- MODULE Spec2Model ----
(***************************************************************************)
(* Model of backend/controllers/product.js: the Express handlers           *)
(* createProduct, getProductById, updateProductById and deleteProductById  *)
(* over the Product store.                                                 *)
(*                                                                         *)
(* Requests are served one at a time: the handlers share nothing but the   *)
(* store.  A request walks its middleware chain one callback per action,   *)
(* the final handler (with its awaited store calls) being one action.      *)
(*                                                                         *)
(* JavaScript values: a string is a sequence of one-character strings, an  *)
(* object is a function from property names to values, so that the spread  *)
(* {...a, k: v} is (k :> v) @@ a.  An optional object (req.file, the       *)
(* product of a response) is a set with at most one element.               *)
(***************************************************************************)
EXTENDS Integers, Sequences, FiniteSets, TLC

\* Number of identifiers uuidv4 can hand out in one run.
MaxIds == 2

Ids == 1..MaxIds

\* JavaScript's undefined and null, and the URL the cloud upload yields.
Undefined == "undefined"
Null == "null"
CloudUrl == "https://cloud/productImage"

\* The expiryDate values a client sends in a body; the server's clock starts
\* at 1, so none of them is a time the server stamps.
ClientDates == {0}

\* The message of an exception thrown by the store.
StoreError == "store error"

VARIABLES
    store,   \* the persisted products: id -> record
    issued,  \* the ids uuidv4 has generated so far
    pc,      \* position of the request in flight in its middleware chain
    req,     \* the request in flight (or the last one served)
    res,     \* its response
    steps,   \* the pipeline steps the request has completed, in order
    passed   \* the record the request handed to Product.create, if any

vars == <<store, issued, pc, req, res, steps, passed>>

----------------------------------------------------------------------------
\* Strings

UpperCase == {"W", "B"}

LowerChar(c) == CASE c = "W" -> "w" [] c = "B" -> "b" [] OTHER -> c

toLowerCase(s) == [i \in 1..Len(s) |-> LowerChar(s[i])]

Digits == {"0", "1", "2", "3", "4", "5", "6", "7", "8", "9"}

AllDigits(s, from, to) == \A i \in from..to : s[i] \in Digits

\* validator.js: /^[+-]?([0-9]*[.])?[0-9]+$/
isNumeric(s) ==
    LET t == IF Len(s) > 0 /\ s[1] \in {"+", "-"} THEN Tail(s) ELSE s
    IN  \/ Len(t) > 0 /\ AllDigits(t, 1, Len(t))
        \/ \E d \in 1..Len(t) :
              /\ t[d] = "."
              /\ d < Len(t)
              /\ AllDigits(t, 1, d - 1)
              /\ AllDigits(t, d + 1, Len(t))

notEmpty(s) == Len(s) > 0

\* The string a validator tests: a missing field reads as ''.
FieldString(body, f) == IF f \in DOMAIN body THEN body[f] ELSE <<>>

\* obj.k, undefined when the object has no such property.
Prop(obj, k) == IF k \in DOMAIN obj THEN obj[k] ELSE Undefined

----------------------------------------------------------------------------
\* Inputs

NameInputs == {<<>>, <<"W", "i">>, <<"b">>}

PriceInputs == {<<"1", ".", "5">>, <<"x">>, <<"5", ".">>}

\* The ids a client puts in a body: one that uuidv4 also hands out.
BodyIds == {1}

Opt(f, S) == {<<>>} \cup {f :> v : v \in S}

Bodies ==
    {n @@ p @@ i @@ e :
        n \in Opt("name", NameInputs),
        p \in Opt("price", PriceInputs),
        i \in Opt("id", BodyIds),
        e \in Opt("expiryDate", ClientDates)}

\* What multer's memoryStorage puts in req.file: no filename, no path.
MemoryFile == [fieldname |-> "productImage", originalname |-> "photo.png"]

NoProduct == {}

NoRequest ==
    [op |-> "none", id |-> 0, body |-> <<>>, file |-> {},
     cloudinaryUrl |-> Undefined, errors |-> <<>>]

NoResponse ==
    [status |-> 0, kind |-> "none", text |-> "", product |-> NoProduct,
     errors |-> <<>>]

Json(status, product) ==
    [status |-> status, kind |-> "json", text |-> "", product |-> {product},
     errors |-> <<>>]

JsonErrors(status, errors) ==
    [status |-> status, kind |-> "json", text |-> "", product |-> NoProduct,
     errors |-> errors]

JsonError(status, message) ==
    [status |-> status, kind |-> "json", text |-> message,
     product |-> NoProduct, errors |-> <<>>]

Send(status, text) ==
    [status |-> status, kind |-> "send", text |-> text, product |-> NoProduct,
     errors |-> <<>>]

Idle == pc = "idle"

----------------------------------------------------------------------------
\* Validation chains

NameError(message) == <<[field |-> "name", message |-> message]>>

PriceError(message) == <<[field |-> "price", message |-> message]>>

\* createValidation with the price rule left out.
createValidationNameOnly(body) ==
    IF notEmpty(FieldString(body, "name"))
        THEN <<>> ELSE NameError("Nome e obrigatorio")

\* body('name').notEmpty(), body('price').isNumeric()
createValidation(body) ==
    (IF notEmpty(FieldString(body, "name"))
        THEN <<>> ELSE NameError("Nome e obrigatorio"))
    \o
    (IF isNumeric(FieldString(body, "price"))
        THEN <<>> ELSE PriceError("O preco deve ser numerico"))

\* body('name').optional().notEmpty(), body('price').optional().isNumeric()
updateValidation(body) ==
    (IF "name" \notin DOMAIN body \/ notEmpty(body.name)
        THEN <<>> ELSE NameError("Nome nao pode estar vazio"))
    \o
    (IF "price" \notin DOMAIN body \/ isNumeric(body.price)
        THEN <<>> ELSE PriceError("O preco deve ser numerico"))

----------------------------------------------------------------------------
\* The store (Sequelize model Product, primary key id)

findOne(st, id) == IF id \in DOMAIN st THEN {st[id]} ELSE {}

\* Product.create: inserts the record, or throws (also on a duplicate key).
CreateSucceeds(st, record, ok) == ok /\ record.id \notin DOMAIN st

StoreCreate(st, record) == (record.id :> record) @@ st

\* instance.update(values): sets the given attributes, never the key.
StoreUpdate(record, values) ==
    [k \in DOMAIN values \ {"id"} |-> values[k]] @@ record

\* Product.destroy: the number of rows deleted.
DestroyCount(st, id) == IF id \in DOMAIN st THEN 1 ELSE 0

StoreDestroy(st, id) == [k \in DOMAIN st \ {id} |-> st[k]]

\* new Date(): the clock advances with every product the server stamps.
Now == Cardinality(issued) + 1

\* uuidv4(): an identifier never generated before; identifiers are numbered
\* in the order of their generation.
uuidv4 == Cardinality(issued) + 1

----------------------------------------------------------------------------
\* createProduct

\* req.file ? req.file.filename : req.cloudinaryUrl || null
ResolveProductImage(r) ==
    IF r.file # {}
        THEN Prop(CHOOSE f \in r.file : TRUE, "filename")
        ELSE IF r.cloudinaryUrl # Undefined THEN r.cloudinaryUrl ELSE Null

\* TransformCreate with the body spread last: { id, name, ..., ...req.body }.
TransformCreateBodyLast(body, id, productImage, now) ==
    body @@ ("id" :> id) @@ ("name" :> toLowerCase(body.name))
        @@ ("productImage" :> productImage) @@ ("expiryDate" :> now)

\* { ...req.body, id, name, productImage, expiryDate }
TransformCreate(body, id, productImage, now) ==
    ("id" :> id) @@ ("name" :> toLowerCase(body.name))
        @@ ("productImage" :> productImage) @@ ("expiryDate" :> now) @@ body

\* The final handler of the createProduct chain.
CreateOutcome(st, r, newId, now, storeOk) ==
    IF r.errors # <<>>
        THEN [res |-> JsonErrors(400, r.errors), store |-> st,
              steps |-> <<>>, passed |-> {}, issued |-> {}]
        ELSE LET record == TransformCreate(r.body, newId,
                                           ResolveProductImage(r), now)
             IN  IF CreateSucceeds(st, record, storeOk)
                    THEN [res |-> Json(201, record),
                          store |-> StoreCreate(st, record),
                          steps |-> <<"transform", "store.create">>,
                          passed |-> {record}, issued |-> {newId}]
                    ELSE [res |-> JsonError(500, StoreError), store |-> st,
                          steps |-> <<"transform", "store.create">>,
                          passed |-> {record}, issued |-> {newId}]

\* upload.single('productImage')
MulterSingle(body, fileSent) ==
    /\ Idle
    /\ issued # Ids
    /\ req' = [op |-> "create", id |-> 0, body |-> body,
               file |-> IF fileSent THEN {MemoryFile} ELSE {},
               cloudinaryUrl |-> Undefined, errors |-> <<>>]
    /\ res' = NoResponse
    /\ steps' = <<"upload">>
    /\ passed' = {}
    /\ pc' = "cloud"
    /\ UNCHANGED <<store, issued>>

\* uploadToCloudinary: sends req.file to the cloud and sets req.cloudinaryUrl;
\* an upload that yields no URL leaves it unset and the chain goes on.
UploadToCloudinary(uploaded) ==
    /\ pc = "cloud"
    /\ req.file = {} => ~uploaded
    /\ req' = [req EXCEPT !.cloudinaryUrl =
                              IF uploaded THEN CloudUrl ELSE Undefined]
    /\ steps' = Append(steps, "cloud")
    /\ pc' = "validate"
    /\ UNCHANGED <<store, issued, res, passed>>

ValidateCreate ==
    /\ pc = "validate"
    /\ req.op = "create"
    /\ req' = [req EXCEPT !.errors = createValidation(req.body)]
    /\ steps' = Append(steps, "validate")
    /\ pc' = "handler"
    /\ UNCHANGED <<store, issued, res, passed>>

CreateHandler(storeOk) ==
    /\ pc = "handler"
    /\ req.op = "create"
    /\ LET out == CreateOutcome(store, req, uuidv4, Now, storeOk)
       IN  /\ res' = out.res
           /\ store' = out.store
           /\ steps' = steps \o out.steps
           /\ passed' = out.passed
           /\ issued' = issued \cup out.issued
    /\ pc' = "done"
    /\ UNCHANGED req

----------------------------------------------------------------------------
\* updateProductById

\* TransformUpdate rebuilding the payload from both fields, sent or not:
\* { ...req.body, name: lower(name || ''), price: price || '' }.
TransformUpdateBothFields(body) ==
    ("name" :> toLowerCase(FieldString(body, "name")))
        @@ ("price" :> FieldString(body, "price")) @@ body

\* TransformUpdate without the lower-casing of the name.
TransformUpdateRaw(body) == body

\* updatedData = req.body; a truthy name is lower-cased in place.
TransformUpdate(body) ==
    IF "name" \in DOMAIN body /\ notEmpty(body.name)
        THEN ("name" :> toLowerCase(body.name)) @@ body
        ELSE body

\* UpdateOutcome with the record loaded before the validation result is read.
UpdateOutcomeLoadFirst(st, r, findOk, updateOk) ==
    IF ~findOk
        THEN [res |-> Send(500, StoreError), store |-> st,
              steps |-> <<"store.findOne">>]
    ELSE IF findOne(st, r.id) = {}
        THEN [res |-> Send(404, "Product not found"), store |-> st,
              steps |-> <<"store.findOne">>]
    ELSE IF r.errors # <<>>
        THEN [res |-> JsonErrors(400, r.errors), store |-> st,
              steps |-> <<"store.findOne">>]
    ELSE IF ~updateOk
        THEN [res |-> Send(500, StoreError), store |-> st,
              steps |-> <<"store.findOne", "transform", "store.update">>]
    ELSE LET product == StoreUpdate(st[r.id], TransformUpdate(r.body))
         IN  [res |-> Json(200, product),
              store |-> [st EXCEPT ![r.id] = product],
              steps |-> <<"store.findOne", "transform", "store.update">>]

\* The final handler of the updateProductById chain.
UpdateOutcome(st, r, findOk, updateOk) ==
    IF r.errors # <<>>
        THEN [res |-> JsonErrors(400, r.errors), store |-> st, steps |-> <<>>]
    ELSE IF ~findOk
        THEN [res |-> Send(500, StoreError), store |-> st,
              steps |-> <<"store.findOne">>]
    ELSE IF findOne(st, r.id) = {}
        THEN [res |-> Send(404, "Product not found"), store |-> st,
              steps |-> <<"store.findOne">>]
    ELSE IF ~updateOk
        THEN [res |-> Send(500, StoreError), store |-> st,
              steps |-> <<"store.findOne", "transform", "store.update">>]
    ELSE LET product == StoreUpdate(st[r.id], TransformUpdate(r.body))
         IN  [res |-> Json(200, product),
              store |-> [st EXCEPT ![r.id] = product],
              steps |-> <<"store.findOne", "transform", "store.update">>]

ValidateUpdate(id, body) ==
    /\ Idle
    /\ req' = [op |-> "update", id |-> id, body |-> body, file |-> {},
               cloudinaryUrl |-> Undefined,
               errors |-> updateValidation(body)]
    /\ res' = NoResponse
    /\ steps' = <<"validate">>
    /\ passed' = {}
    /\ pc' = "handler"
    /\ UNCHANGED <<store, issued>>

UpdateHandler(findOk, updateOk) ==
    /\ pc = "handler"
    /\ req.op = "update"
    /\ LET out == UpdateOutcome(store, req, findOk, updateOk)
       IN  /\ res' = out.res
           /\ store' = out.store
           /\ steps' = steps \o out.steps
    /\ pc' = "done"
    /\ UNCHANGED <<req, issued, passed>>

----------------------------------------------------------------------------
\* getProductById, deleteProductById

\* GetOutcome with absence thrown as an error, as deleteProductById does.
GetOutcomeThrowing(st, id, storeOk) ==
    IF ~storeOk THEN Send(500, StoreError)
    ELSE IF findOne(st, id) # {}
        THEN Json(200, CHOOSE p \in findOne(st, id) : TRUE)
        ELSE Send(500, "Product not found")

GetOutcome(st, id, storeOk) ==
    IF ~storeOk THEN Send(500, StoreError)
    ELSE IF findOne(st, id) # {}
        THEN Json(200, CHOOSE p \in findOne(st, id) : TRUE)
        ELSE Send(404, "Product with the specified ID does not exist")

GetProductById(id, storeOk) ==
    /\ Idle
    /\ req' = [NoRequest EXCEPT !.op = "get", !.id = id]
    /\ res' = GetOutcome(store, id, storeOk)
    /\ steps' = <<"store.findOne">>
    /\ passed' = {}
    /\ pc' = "done"
    /\ UNCHANGED <<store, issued>>

\* DeleteOutcome with absence answered 404, as getProductById does.
DeleteOutcomeNotFound(st, id, storeOk) ==
    IF ~storeOk THEN [res |-> Send(500, StoreError), store |-> st]
    ELSE IF DestroyCount(st, id) # 0
        THEN [res |-> Send(204, "Product deleted successfully"),
              store |-> StoreDestroy(st, id)]
        ELSE [res |-> Send(404, "Product not found"), store |-> st]

DeleteOutcome(st, id, storeOk) ==
    IF ~storeOk THEN [res |-> Send(500, StoreError), store |-> st]
    ELSE IF DestroyCount(st, id) # 0
        THEN [res |-> Send(204, "Product deleted successfully"),
              store |-> StoreDestroy(st, id)]
        ELSE [res |-> Send(500, "Product not found"), store |-> st]

DeleteProductById(id, storeOk) ==
    /\ Idle
    /\ req' = [NoRequest EXCEPT !.op = "delete", !.id = id]
    /\ LET out == DeleteOutcome(store, id, storeOk)
       IN  /\ res' = out.res
           /\ store' = out.store
    /\ steps' = <<"store.destroy">>
    /\ passed' = {}
    /\ pc' = "done"
    /\ UNCHANGED issued

----------------------------------------------------------------------------

\* res.json / res.send has ended the response: the request object is dropped
\* and the server takes the next request.
EndRequest ==
    /\ pc = "done"
    /\ pc' = "idle"
    /\ req' = NoRequest
    /\ res' = NoResponse
    /\ steps' = <<>>
    /\ passed' = {}
    /\ UNCHANGED <<store, issued>>

Init ==
    /\ store = <<>>
    /\ issued = {}
    /\ pc = "idle"
    /\ req = NoRequest
    /\ res = NoResponse
    /\ steps = <<>>
    /\ passed = {}

Next ==
    \/ \E body \in Bodies, fileSent \in BOOLEAN : MulterSingle(body, fileSent)
    \/ \E uploaded \in BOOLEAN : UploadToCloudinary(uploaded)
    \/ ValidateCreate
    \/ \E storeOk \in BOOLEAN : CreateHandler(storeOk)
    \/ \E id \in Ids, body \in Bodies : ValidateUpdate(id, body)
    \/ \E findOk \in BOOLEAN, updateOk \in BOOLEAN :
          UpdateHandler(findOk, updateOk)
    \/ \E id \in Ids, storeOk \in BOOLEAN : GetProductById(id, storeOk)
    \/ \E id \in Ids, storeOk \in BOOLEAN : DeleteProductById(id, storeOk)
    \/ EndRequest

Spec == Init /\ [][Next]_vars

----------------------------------------------------------------------------
\* Vocabulary of the properties

Done == pc = "done"

HasUpperCase(s) == \E i \in 1..Len(s) : s[i] \in UpperCase

\* A Create input missing name, with an empty name, or with a price that is
\* missing or fails the numeric-format test.
InvalidCreateInput(body) ==
    \/ ~notEmpty(FieldString(body, "name"))
    \/ ~isNumeric(FieldString(body, "price"))

\* An Update input whose name is sent empty or whose price is sent and fails
\* the numeric-format test.
InvalidUpdateInput(body) ==
    \/ "name" \in DOMAIN body /\ ~notEmpty(body.name)
    \/ "price" \in DOMAIN body /\ ~isNumeric(body.price)

\* The 500 of a store call that threw (the catch blocks).
StoreThrew(r) == r.status = 500 /\ r.text = StoreError

IsPrefix(s, t) == Len(s) <= Len(t) /\ \A i \in 1..Len(s) : s[i] = t[i]

CreateOrder == <<"upload", "cloud", "validate", "transform", "store.create">>

UpdateOrder == <<"validate", "store.findOne", "transform", "store.update">>

----------------------------------------------------------------------------
\* C1: a Create request whose input is missing name, has an empty name or
\* has a non-numeric price ends with 400 and the list of validation
\* failures; no step of the request calls the store's create, and the
\* persisted products stay as they were.
C1_InvalidCreateRejected ==
    [][(req'.op = "create" /\ InvalidCreateInput(req'.body)) =>
          /\ store' = store
          /\ passed' = {}
          /\ \A i \in 1..Len(steps') : steps'[i] # "store.create"
          /\ pc' = "done" =>
                /\ res'.status = 400
                /\ res'.errors # <<>>
                /\ res'.product = NoProduct]_vars

\* An invalid Create that carried a file, uploaded it, and was answered 400
\* while a product was already persisted.
C1_Witness ==
    /\ Done
    /\ req.op = "create"
    /\ InvalidCreateInput(req.body)
    /\ "name" \in DOMAIN req.body
    /\ notEmpty(req.body.name)
    /\ req.cloudinaryUrl = CloudUrl
    /\ res.status = 400
    /\ store # <<>>

\* C2: for a Create with valid name and price, whatever id the body carries,
\* the record handed to the store has an id that no persisted record has and
\* the submitted name in lower case; the answer is 201 with that record and
\* the record is persisted, or 500 and nothing is persisted.
C2_CreateFreshIdLowerName ==
    [][(pc = "handler" /\ req.op = "create" /\ pc' = "done"
           /\ ~InvalidCreateInput(req.body)) =>
          /\ Cardinality(passed') = 1
          /\ \A record \in passed' :
                /\ record.id \notin DOMAIN store
                /\ record.name = toLowerCase(req.body.name)
                /\ \/ /\ res' = Json(201, record)
                      /\ DOMAIN store' = DOMAIN store \cup {record.id}
                      /\ store'[record.id] = record
                      /\ \A id \in DOMAIN store : store'[id] = store[id]
                   \/ /\ StoreThrew(res')
                      /\ store' = store]_vars

\* A Create answered 201 whose body carried the id of a persisted product and
\* an upper-case name.
C2_Witness ==
    /\ Done
    /\ req.op = "create"
    /\ res.status = 201
    /\ "id" \in DOMAIN req.body
    /\ HasUpperCase(req.body.name)
    /\ \E record \in res.product :
          /\ record.id # req.body.id
          /\ req.body.id \in DOMAIN store
          /\ store[record.id] = record

\* C3: a Create that carries a file whose cloud upload yields no URL ends in
\* an error outcome and hands no record to the store's create.
C3_FailedUploadAbortsCreate ==
    (Done /\ req.op = "create" /\ req.file # {}
        /\ req.cloudinaryUrl = Undefined) =>
       /\ res.status >= 400
       /\ passed = {}

\* C4: the productImage of the record a Create has persisted is the cloud
\* URL when the request has one, else the local filename when the request
\* has a file, else null.
C4_CloudUrlFirst ==
    (Done /\ req.op = "create" /\ res.status = 201) =>
       \A record \in res.product :
          store[record.id].productImage =
             IF req.cloudinaryUrl # Undefined THEN req.cloudinaryUrl
             ELSE IF req.file # {}
                THEN Prop(CHOOSE f \in req.file : TRUE, "filename")
                ELSE Null

\* C5: no step changes the id or the expiryDate of a persisted product.
C5_IdAndExpiryDateImmutable ==
    [][\A id \in DOMAIN store \cap DOMAIN store' :
          /\ store'[id].id = store[id].id
          /\ store'[id].expiryDate = store[id].expiryDate]_vars

C7_PersistedNameAndPriceValid ==
    \A id \in DOMAIN store :
       /\ "name" \in DOMAIN store[id]
       /\ notEmpty(store[id].name)
       /\ ~HasUpperCase(store[id].name)
       /\ "price" \in DOMAIN store[id]
       /\ isNumeric(store[id].price)

\* A product whose name an update has just replaced, the update having sent
\* the name in upper case together with a price.
C7_Witness ==
    /\ Done
    /\ req.op = "update"
    /\ res.status = 200
    /\ {"name", "price"} \subseteq DOMAIN req.body
    /\ HasUpperCase(req.body.name)
    /\ store[req.id].name = toLowerCase(req.body.name)
    /\ \E id \in DOMAIN store : store[id].name # store[req.id].name

\* C8: GetById never changes the store; when the store's lookup answers, an
\* id of no persisted product is answered 404 (not 500) and the id of a
\* persisted product is answered 200 with that record.  The only 500 is the
\* one that reports an exception thrown by the store.
C8_GetByIdOutcome ==
    [][(pc' = "done" /\ req'.op = "get") =>
          /\ store' = store
          /\ ~StoreThrew(res') =>
                IF req'.id \in DOMAIN store
                   THEN res' = Json(200, store[req'.id])
                   ELSE /\ res'.status = 404
                        /\ res'.kind = "send"
                        /\ res'.product = NoProduct
          /\ res'.status = 500 => StoreThrew(res')]_vars

\* A GetById answered 404 for the id of a product that was created and then
\* deleted, another product being persisted.
C8_Witness ==
    /\ Done
    /\ req.op = "get"
    /\ res.status = 404
    /\ req.id \in issued
    /\ store # <<>>

\* C9: when the store's destroy answers, DeleteById of an id of no persisted
\* product ends with 500 and the message 'Product not found', never 404, and
\* leaves the store as it was; DeleteById of a persisted id ends with 204 and
\* the store no longer holds that id, the other products being kept.
C9_DeleteByIdOutcome ==
    [][(pc' = "done" /\ req'.op = "delete") =>
          /\ res'.status # 404
          /\ StoreThrew(res') => store' = store
          /\ ~StoreThrew(res') =>
                IF req'.id \in DOMAIN store
                   THEN /\ res'.status = 204
                        /\ DOMAIN store' = DOMAIN store \ {req'.id}
                        /\ \A id \in DOMAIN store' : store'[id] = store[id]
                   ELSE /\ res' = Send(500, "Product not found")
                        /\ store' = store]_vars

\* A DeleteById of an id that was persisted once and is no longer, answered
\* 500 'Product not found' with another product persisted.
C9_Witness ==
    /\ Done
    /\ req.op = "delete"
    /\ res = Send(500, "Product not found")
    /\ req.id \in issued
    /\ store # <<>>

\* C10: the steps of a request happen in one fixed order: upload, cloud
\* upload, validation, transformation, store create for Create; validation,
\* store lookup, transformation, store update for UpdateById.  An UpdateById
\* with an invalid payload is answered 400, not 404, also for an id of no
\* persisted product, without any store call and with the store unchanged.
C10_PipelineOrder ==
    [][/\ req'.op = "create" => IsPrefix(steps', CreateOrder)
       /\ req'.op = "update" => IsPrefix(steps', UpdateOrder)
       /\ (req'.op = "update" /\ InvalidUpdateInput(req'.body)) =>
             /\ store' = store
             /\ steps' = <<"validate">>
             /\ pc' = "done" => /\ res'.status = 400
                                /\ res'.errors # <<>>]_vars

\* An UpdateById with an invalid payload for an id of no persisted product,
\* answered 400.
C10_Witness ==
    /\ Done
    /\ req.op = "update"
    /\ InvalidUpdateInput(req.body)
    /\ req.id \notin DOMAIN store
    /\ res.status = 400
    /\ steps = <<"validate">>

====
